---- MODULE Spec2Model ----
(***************************************************************************)
(* Model of the Redis-backed delay queue of redisx/delayQueue/queue.go and *)
(* of its claim script task.lua.                                           *)
(*                                                                         *)
(* One Queue value is modelled together with the Redis keys it uses:       *)
(*   <queueKey>:delayed  a sorted set, member = task id, score = due time  *)
(*   <queueKey>:tasks    a hash, field = task id, value = payload bytes    *)
(* Every call of Start launches one run goroutine (a "poller"); every      *)
(* claimed id gets one handleTask goroutine (an "executor").               *)
(* Time is a global clock counted in fractions of a second, so that the    *)
(* truncation of time.Time.Unix() to whole seconds is part of the model.   *)
(***************************************************************************)
EXTENDS Integers, Sequences, FiniteSets, Bags, TLC

----------------------------------------------------------------------------
(* Bounds of the model *)

\* number of Add calls (each draws one fresh uuid)
MaxTasks == 2
\* number of Start calls on the Queue
MaxStarts == 2
\* the clock stops advancing here
MaxClock == 2
\* clock units per second
TicksPerSecond == 2
\* largest delay handed to Add, in clock units
MaxDelay == 1
\* the value given to WithConcurrency
Concurrency == 1
\* the value given to WithHandlerTimeout when it is used, in clock units
ConfiguredTimeout == 1

----------------------------------------------------------------------------
(* Values *)

\* the zero string: what Text() yields for a nil reply
EmptyId == 0

TaskIds == 1..MaxTasks
Pollers == 1..MaxStarts
Delays == 0..MaxDelay

\* payloads handed to Add: a string, and a value encoding/json cannot represent
Payloads == { <<"T">> }
Unsupported == <<"chan">>

\* time.Time.Unix(): whole seconds, fraction dropped
Unix(t) == t \div TicksPerSecond

\* json.Marshal of a string without characters to escape: the text in quotes
Marshal(v) ==
    IF v = Unsupported
    THEN [data |-> << >>, err |-> "json: unsupported type"]
    ELSE [data |-> <<"\"">> \o v \o <<"\"">>, err |-> "nil"]

\* json.Unmarshal into a string, for bytes that are a text in quotes
Unmarshal(data) ==
    IF Len(data) >= 2 /\ data[1] = "\"" /\ data[Len(data)] = "\""
    THEN [v |-> SubSeq(data, 2, Len(data) - 1), err |-> "nil"]
    ELSE [v |-> << >>, err |-> "json: invalid"]

\* NewQueue leaves handlerTimeout at its zero value unless WithHandlerTimeout is given
HandlerTimeouts == {0, ConfiguredTimeout}

VARIABLES
    clock,           \* wall clock
    delayed,         \* sorted set <queueKey>:delayed : member -> score
    tasks,           \* hash <queueKey>:tasks : field -> value
    uuids,           \* number of ids drawn by uuid.New()
    lastAdd,         \* the error the last Add call returned
    handlerTimeout,  \* q.handlerTimeout
    cancelled,       \* q.ctx is cancelled
    stopped,         \* q.stopped is closed
    panicked,        \* the process died of a panic
    stopPc,          \* the caller of Stop: "idle" or "waiting" on <-q.stopped
    stopReturned,    \* some call of Stop has returned
    pc,              \* per run goroutine: where it is
    sem,             \* per run goroutine: elements in its sem channel
    now,             \* per run goroutine: processBatch's local now
    execs,           \* bag of running handleTask goroutines
    hist             \* per id: what has happened to it (history)

vars == <<clock, delayed, tasks, uuids, lastAdd, handlerTimeout, cancelled,
          stopped, panicked, stopPc, stopReturned, pc, sem, now, execs,
          hist>>

storeVars == <<delayed, tasks, uuids, lastAdd>>
lifeVars == <<cancelled, stopped, panicked, stopPc, stopReturned>>
pollVars == <<pc, sem, now>>

\* hist[id]: added, with the time it falls due (enqueue time + delay, in
\* clock units) and its payload; the claims that returned it; the handler
\* calls made for it with the bytes read; how the handler and handleTask ended
NoHist ==
    [added |-> FALSE, due |-> 0, payload |-> << >>,
     claims |-> << >>, calls |-> 0, data |-> << >>, handler |-> "none",
     late |-> FALSE, exec |-> "none", getErr |-> "nil"]

NoAdd == "none"

Init ==
    /\ clock = 0
    /\ delayed = << >>
    /\ tasks = << >>
    /\ uuids = 0
    /\ lastAdd = NoAdd
    /\ handlerTimeout \in HandlerTimeouts
    /\ cancelled = FALSE
    /\ stopped = FALSE
    /\ panicked = FALSE
    /\ stopPc = "idle"
    /\ stopReturned = FALSE
    /\ pc = [p \in Pollers |-> "none"]
    /\ sem = [p \in Pollers |-> 0]
    /\ now = [p \in Pollers |-> 0]
    /\ execs = EmptyBag
    /\ hist = [i \in TaskIds |-> NoHist]

----------------------------------------------------------------------------
(* The store *)

\* ZADD key score member
ZAdd(z, member, score) ==
    [m \in DOMAIN z \cup {member} |-> IF m = member THEN score ELSE z[m]]

\* ZREM key member
ZRem(z, member) == [m \in DOMAIN z \ {member} |-> z[m]]

\* HSET key field value
HSet(h, field, value) ==
    [f \in DOMAIN h \cup {field} |-> IF f = field THEN value ELSE h[f]]

\* an HDEL that replies without removing the field
HDelKeep(h, field) == h

\* HDEL key field
HDel(h, field) == [f \in DOMAIN h \ {field} |-> h[f]]

\* a range that leaves out the members whose score equals max
ZRangeByScoreStrict(z, max) ==
    LET inRange == {m \in DOMAIN z : z[m] < max}
    IN  {m \in inRange : \A k \in inRange : z[m] <= z[k]}

\* a range that gives any member in range first, not one of least score
ZRangeByScoreAny(z, max) == {m \in DOMAIN z : z[m] <= max}

\* ZRANGEBYSCORE key -inf max LIMIT 0 1: the members that can come first, those
\* of least score among the ones with score <= max (ties are broken by the
\* member strings, which are random uuids)
ZRangeByScoreFirst(z, max) ==
    LET inRange == {m \in DOMAIN z : z[m] <= max}
    IN  {m \in inRange : \A k \in inRange : z[m] <= z[k]}

\* the script without its ZREM: the member found is returned and left in place
LuaScriptNoRem(z, argNow) ==
    LET task == ZRangeByScoreFirst(z, argNow)
    IN  IF task = {}
        THEN {[val |-> EmptyId, err |-> "redis.Nil", zset |-> z]}
        ELSE {[val |-> m, err |-> "nil", zset |-> z] : m \in task}

\* task.lua, run atomically by the server: the replies it can give and the
\* sorted set each leaves behind
LuaScript(z, argNow) ==
    LET task == ZRangeByScoreFirst(z, argNow)
    IN  IF task = {}
        THEN {[val |-> EmptyId, err |-> "redis.Nil", zset |-> z]}
        ELSE {[val |-> m, err |-> "nil", zset |-> ZRem(z, m)] : m \in task}

\* what fetchTask returns for a reply of Run(...).Text()
FetchTaskReturn(val, err) ==
    IF err # "nil" /\ err # "redis.Nil"
    THEN [val |-> EmptyId, err |-> "lua script error"]
    ELSE [val |-> val, err |-> "nil"]

----------------------------------------------------------------------------
(* Time *)

Advance ==
    /\ clock < MaxClock
    /\ clock' = clock + 1
    /\ UNCHANGED <<storeVars, handlerTimeout, lifeVars, pollVars, execs, hist>>

----------------------------------------------------------------------------
(* Add *)

\* a score that leaves the delay out
ScoreNoDelay(t, delay) == Unix(t)

\* the score Add gives the task: time.Now().Add(delay).Unix()
Score(t, delay) == Unix(t + delay)

\* a pipeline that is not a transaction: when it fails, the commands sent
\* before the failure have been applied
PipelineExecPartial(z, h, taskID, score, taskData, execOk) ==
    IF execOk
    THEN [delayed |-> ZAdd(z, taskID, score), tasks |-> HSet(h, taskID, taskData),
          err |-> "nil"]
    ELSE [delayed |-> ZAdd(z, taskID, score), tasks |-> h, err |-> "exec error"]

\* pipe.Exec on the TxPipeline holding the ZAdd and the HSet: MULTI/EXEC
\* applies both commands or, when it cannot commit (~execOk), none
TxPipelineExec(z, h, taskID, score, taskData, execOk) ==
    IF execOk
    THEN [delayed |-> ZAdd(z, taskID, score), tasks |-> HSet(h, taskID, taskData),
          err |-> "nil"]
    ELSE [delayed |-> z, tasks |-> h, err |-> "exec error"]

\* Add(ctx, payload, delay)
Add(payload, delay, execOk) ==
    LET taskID == uuids + 1
        m == Marshal(payload)
        r == TxPipelineExec(delayed, tasks, taskID, Score(clock, delay), m.data,
                            execOk)
    IN  /\ ~panicked
        /\ uuids < MaxTasks
        /\ uuids' = taskID
        /\ IF m.err # "nil"
           THEN /\ lastAdd' = "marshal payload error"
                /\ UNCHANGED <<delayed, tasks, hist>>
           ELSE /\ delayed' = r.delayed
                /\ tasks' = r.tasks
                /\ lastAdd' = r.err
                /\ hist' = IF r.err # "nil" THEN hist
                           ELSE [hist EXCEPT ![taskID] =
                                   [@ EXCEPT !.added = TRUE, !.due = clock + delay,
                                             !.payload = payload]]
        /\ UNCHANGED <<clock, handlerTimeout, lifeVars, pollVars, execs>>

----------------------------------------------------------------------------
(* Start, Stop, run *)

\* Start: go q.run(handler)
Start ==
    /\ ~panicked
    /\ \E p \in Pollers :
          /\ pc[p] = "none"
          /\ \A o \in Pollers : o < p => pc[o] # "none"
          /\ pc' = [pc EXCEPT ![p] = "select"]
    /\ UNCHANGED <<clock, storeVars, handlerTimeout, lifeVars, sem, now,
                   execs, hist>>

\* Stop, first half: q.cancel(), then block on <-q.stopped
StopCall ==
    /\ ~panicked
    /\ stopPc = "idle"
    /\ cancelled' = TRUE
    /\ stopPc' = "waiting"
    /\ UNCHANGED <<clock, storeVars, handlerTimeout, stopped, panicked,
                   stopReturned, pollVars, execs, hist>>

\* a Stop that returns without waiting for q.stopped
StopReturnNoWait ==
    /\ ~panicked
    /\ stopPc = "waiting"
    /\ stopPc' = "idle"
    /\ stopReturned' = TRUE
    /\ UNCHANGED <<clock, storeVars, handlerTimeout, cancelled, stopped,
                   panicked, pollVars, execs, hist>>

\* Stop, second half: the receive from the closed channel completes
StopReturn ==
    /\ ~panicked
    /\ stopPc = "waiting"
    /\ stopped
    /\ stopPc' = "idle"
    /\ stopReturned' = TRUE
    /\ UNCHANGED <<clock, storeVars, handlerTimeout, cancelled, stopped,
                   panicked, pollVars, execs, hist>>

\* run: the select takes case <-q.ctx.Done() and returns; the deferred
\* close(q.stopped) panics on a channel that is closed already
RunDone(p) ==
    /\ ~panicked
    /\ pc[p] = "select"
    /\ cancelled
    /\ pc' = [pc EXCEPT ![p] = "exited"]
    /\ IF stopped
       THEN panicked' = TRUE /\ UNCHANGED stopped
       ELSE stopped' = TRUE /\ UNCHANGED panicked
    /\ UNCHANGED <<clock, storeVars, handlerTimeout, cancelled, stopPc,
                   stopReturned, sem, now, execs, hist>>

\* run: the ticker delivers its next tick, the select takes case <-ticker.C
\* and enters processBatch, which reads the clock once
RunTick(p) ==
    /\ ~panicked
    /\ pc[p] = "select"
    /\ now' = [now EXCEPT ![p] = Unix(clock)]
    /\ pc' = [pc EXCEPT ![p] = "acquire"]
    /\ UNCHANGED <<clock, storeVars, handlerTimeout, lifeVars, sem, execs, hist>>

----------------------------------------------------------------------------
(* processBatch *)

\* the inner select: case sem <- struct{}{} when the channel has room, else
\* default, which returns to run
Acquire(p) ==
    /\ ~panicked
    /\ pc[p] = "acquire"
    /\ IF sem[p] < Concurrency
       THEN /\ sem' = [sem EXCEPT ![p] = @ + 1]
            /\ pc' = [pc EXCEPT ![p] = "fetch"]
            /\ UNCHANGED now
       ELSE /\ pc' = [pc EXCEPT ![p] = "select"]
            /\ now' = [now EXCEPT ![p] = 0]
            /\ UNCHANGED sem
    /\ UNCHANGED <<clock, storeVars, handlerTimeout, lifeVars, execs, hist>>

\* the history of a task id updated; the empty id is no task and has none
Note(id, h) == IF id \in TaskIds THEN [hist EXCEPT ![id] = h] ELSE hist

\* a handleTask goroutine as the go statement creates it
NewExec(p, taskID) ==
    [id |-> taskID, owner |-> p, pc |-> "start", deadline |-> 0]

\* a processBatch whose fetch error ends the run goroutine
OnFetchErrorExit == "exited"

\* processBatch after an error of fetchTask: it returns to the loop of run
OnFetchError == "select"

\* the body of case sem <- struct{}{} for one reply of the script
Dispatch(p, reply) ==
    LET r == FetchTaskReturn(reply.val, reply.err)
    IN  /\ delayed' = reply.zset
        /\ IF r.err # "nil"
           THEN /\ sem' = [sem EXCEPT ![p] = @ - 1]
                /\ pc' = [pc EXCEPT ![p] = OnFetchError]
                /\ now' = [now EXCEPT ![p] = 0]
                /\ UNCHANGED <<execs, hist>>
           ELSE /\ execs' = execs (+) SetToBag({NewExec(p, r.val)})
                /\ pc' = [pc EXCEPT ![p] = "acquire"]
                /\ hist' = Note(r.val, [hist[r.val] EXCEPT
                                          !.claims = Append(@, [by |-> p, now |-> now[p]]),
                                          !.exec = "running"])
                /\ UNCHANGED <<sem, now>>

\* fetchTask and what processBatch does with its result; the script runs
\* (scriptRuns) or the call fails before reaching it
Fetch(p, scriptRuns) ==
    /\ ~panicked
    /\ pc[p] = "fetch"
    /\ IF scriptRuns
       THEN \E reply \in LuaScript(delayed, now[p]) : Dispatch(p, reply)
       ELSE Dispatch(p, [val |-> EmptyId, err |-> "io error", zset |-> delayed])
    /\ UNCHANGED <<clock, tasks, uuids, lastAdd, handlerTimeout, lifeVars>>

----------------------------------------------------------------------------
(* handleTask *)

Running == BagToSet(execs)

\* the context of context.WithTimeout is done once its deadline is reached
Expired(deadline) == clock >= deadline

\* the deferred calls of handleTask: cancel(), then <-sem; the goroutine ends
Finish(e) ==
    /\ sem[e.owner] > 0
    /\ sem' = [sem EXCEPT ![e.owner] = @ - 1]
    /\ execs' = execs (-) SetToBag({e})

\* an executor moves on inside handleTask
Step(e, next) ==
    /\ execs' = (execs (-) SetToBag({e})) (+) SetToBag({next})
    /\ UNCHANGED sem

\* HGet(ctx, key, field).Bytes(): the error it returns, or "nil"
HGetErr(h, field, ctxDone, storeOk) ==
    IF ctxDone THEN "context deadline exceeded"
    ELSE IF ~storeOk THEN "io error"
    ELSE IF field \notin DOMAIN h THEN "redis.Nil"
    ELSE "nil"

\* HDel(ctx, key, field).Result(): the error it returns, or "nil"
HDelErr(ctxDone, storeOk) ==
    IF ctxDone THEN "context deadline exceeded"
    ELSE IF ~storeOk THEN "io error"
    ELSE "nil"

\* handleTask from its start to the call of the handler: the context with the
\* timeout is made, the payload is read, and on an error the task is given up
HandleTaskGet(e, storeOk) ==
    LET deadline == clock + handlerTimeout
        err == HGetErr(tasks, e.id, Expired(deadline), storeOk)
    IN  /\ ~panicked
        /\ e \in Running
        /\ e.pc = "start"
        /\ IF err # "nil"
           THEN /\ Finish(e)
                /\ hist' = Note(e.id, [hist[e.id] EXCEPT !.exec = "getErr",
                                                         !.getErr = err])
           ELSE /\ Step(e, [e EXCEPT !.pc = "handler", !.deadline = deadline])
                /\ hist' = [hist EXCEPT ![e.id] =
                              [@ EXCEPT !.calls = @ + 1, !.handler = "running",
                                        !.data = tasks[e.id]]]
        /\ UNCHANGED <<clock, storeVars, handlerTimeout, lifeVars, pc, now>>

\* a handleTask that deletes the payload whatever the handler returned
HandlerNextAlwaysDelete(ok) == "hdel"

\* a handleTask that starts over when the handler failed
HandlerNextRetry(ok) == IF ~ok THEN "start" ELSE "hdel"

\* handleTask after the handler: an error is logged and ends it, nil goes on
\* to the delete
HandlerNext(ok) == IF ~ok THEN "return" ELSE "hdel"

\* the user handler returns, nil (ok) or an error, before or after the
\* deadline of its context
HandlerReturn(e, ok) ==
    /\ ~panicked
    /\ e \in Running
    /\ e.pc = "handler"
    /\ IF HandlerNext(ok) = "return"
       THEN /\ Finish(e)
            /\ hist' = [hist EXCEPT ![e.id] =
                          [@ EXCEPT !.handler = "err", !.exec = "handlerErr",
                                    !.late = Expired(e.deadline)]]
       ELSE /\ Step(e, [e EXCEPT !.pc = HandlerNext(ok)])
            /\ hist' = [hist EXCEPT ![e.id] =
                          [@ EXCEPT !.handler = IF ok THEN "ok" ELSE "err",
                                    !.late = Expired(e.deadline)]]
    /\ UNCHANGED <<clock, storeVars, handlerTimeout, lifeVars, pc, now>>

\* handleTask after a handler that returned nil: the payload is deleted with
\* the same context; an error of the delete is logged
HandleTaskDel(e, storeOk) ==
    LET err == HDelErr(Expired(e.deadline), storeOk)
    IN  /\ ~panicked
        /\ e \in Running
        /\ e.pc = "hdel"
        /\ Finish(e)
        /\ IF err # "nil"
           THEN /\ hist' = [hist EXCEPT ![e.id] = [@ EXCEPT !.exec = "delErr"]]
                /\ UNCHANGED tasks
           ELSE /\ tasks' = HDel(tasks, e.id)
                /\ hist' = [hist EXCEPT ![e.id] = [@ EXCEPT !.exec = "deleted"]]
        /\ UNCHANGED <<clock, delayed, uuids, lastAdd, handlerTimeout, lifeVars,
                       pc, now>>

----------------------------------------------------------------------------
(* Specification *)

Next ==
    \/ Advance
    \/ \E payload \in Payloads \cup {Unsupported}, delay \in Delays,
          execOk \in BOOLEAN : Add(payload, delay, execOk)
    \/ Start
    \/ StopCall
    \/ StopReturn
    \/ \E p \in Pollers : RunDone(p)
    \/ \E p \in Pollers : RunTick(p)
    \/ \E p \in Pollers : Acquire(p)
    \/ \E p \in Pollers, scriptRuns \in BOOLEAN : Fetch(p, scriptRuns)
    \/ \E e \in Running, storeOk \in BOOLEAN : HandleTaskGet(e, storeOk)
    \/ \E e \in Running, ok \in BOOLEAN : HandlerReturn(e, ok)
    \/ \E e \in Running, storeOk \in BOOLEAN : HandleTaskDel(e, storeOk)

Spec == Init /\ [][Next]_vars

\* Every goroutine that can take a step is scheduled, and every store call
\* returns. A select with several ready cases picks among them at random, so
\* a run goroutine that reaches its select again and again with the context
\* cancelled takes that case in the end.
FairSpec ==
    /\ Spec
    /\ WF_vars(StopReturn)
    /\ \A p \in Pollers :
          /\ SF_vars(RunDone(p))
          /\ WF_vars(Acquire(p))
          /\ WF_vars(\E scriptRuns \in BOOLEAN : Fetch(p, scriptRuns))
    /\ WF_vars(\E e \in Running, storeOk \in BOOLEAN : HandleTaskGet(e, storeOk))
    /\ WF_vars(\E e \in Running, ok \in BOOLEAN : HandlerReturn(e, ok))
    /\ WF_vars(\E e \in Running, storeOk \in BOOLEAN : HandleTaskDel(e, storeOk))

----------------------------------------------------------------------------
(* Properties *)

Started(p) == pc[p] # "none"
Claimed(i) == hist[i].claims # << >>
ExecEnded(i) == hist[i].exec \in {"getErr", "handlerErr", "delErr", "deleted"}
InHandler == {e \in Running : e.pc = "handler"}

\* C1: whatever the number of run goroutines calling fetchTask on the same
\* sorted set and however their calls interleave, no task id is returned by
\* more than one call of the script.
C1_ClaimedAtMostOnce == \A i \in TaskIds : Len(hist[i].claims) <= 1

\* C1 witness: a task was returned to one poller while another poller, for
\* whose now the task was due as well, is in the middle of its own claim.
C1_Witness ==
    \E i \in TaskIds, q \in Pollers :
        /\ Claimed(i)
        /\ hist[i].claims[1].by # q
        /\ pc[q] = "fetch"
        /\ Unix(hist[i].due) <= now[q]

\* C2: the number of handler invocations in flight for the Queue never
\* exceeds the configured concurrency.
C2_InFlightAtMostConcurrency == Cardinality(InHandler) <= Concurrency

\* C3: a task added at time t with delay d is never returned by a claim whose
\* now is below t + d in whole seconds, and until it is returned it stays in
\* the sorted set with that score.
C3_NeverClaimedEarly ==
    \A i \in TaskIds :
        /\ \A k \in 1..Len(hist[i].claims) :
              hist[i].claims[k].now >= Unix(hist[i].due)
        /\ (hist[i].added /\ ~Claimed(i)) =>
              (i \in DOMAIN delayed /\ delayed[i] = Unix(hist[i].due))

\* C3 witness: a task that was not yet due when it was added (its due second
\* lies after the second of time 0 and it had a delay) has been claimed.
C3_Witness ==
    \E i \in TaskIds :
        /\ Claimed(i)
        /\ Unix(hist[i].due) >= 1
        /\ hist[i].claims[1].now = Unix(hist[i].due)

\* C4 as stated: once handleTask has finished for a task whose handler
\* returned success, the task has no entry in the payload hash.
C4_SuccessRemovesPayload ==
    \A i \in TaskIds :
        (hist[i].handler = "ok" /\ ExecEnded(i)) => i \notin DOMAIN tasks

\* C4 as amended: once handleTask has finished for a task whose handler
\* returned success and whose HDel returned no error, the task has no entry
\* in the payload hash.
C4_SuccessAndDeleteRemovesPayload ==
    \A i \in TaskIds :
        (hist[i].handler = "ok" /\ hist[i].exec = "deleted") =>
            i \notin DOMAIN tasks

\* C4 witness: a handler returned success and the delete went through.
C4_Witness ==
    \E i \in TaskIds : hist[i].handler = "ok" /\ hist[i].exec = "deleted"

\* C5: once the handler of a claimed task has returned an error, or has
\* returned after the deadline of its context, the task's payload entry is
\* there, unchanged, in every later state, and its id is not in the sorted
\* set again.
C5_FailureKeepsPayload ==
    \A i \in TaskIds :
        (hist[i].handler = "err" \/ (hist[i].handler = "ok" /\ hist[i].late)) =>
            /\ i \in DOMAIN tasks
            /\ tasks[i] = Marshal(hist[i].payload).data
            /\ i \notin DOMAIN delayed

\* C5 witness: one handler returned an error and its handleTask has ended,
\* another ran past its deadline.
C5_Witness ==
    /\ \E i \in TaskIds : hist[i].handler = "err" /\ hist[i].exec = "handlerErr"
    /\ \E i \in TaskIds : hist[i].late /\ ExecEnded(i)

\* C6: once a call of Stop has returned, no fetchTask runs.
C6_NoFetchAfterStop ==
    [][stopReturned =>
         ~(\E p \in Pollers, scriptRuns \in BOOLEAN : Fetch(p, scriptRuns))]_vars

\* C7: a call of Stop made after Start has been called returns in the end.
C7_StopReturns ==
    []((stopPc = "idle" /\ \E p \in Pollers : Started(p)) =>
          [](stopPc = "waiting" => <>(stopPc = "idle")))

\* C8: a call of Add that returns nil has added, for one fresh id, the
\* sorted-set entry with score Unix(now + delay) and the hash entry with the
\* marshalled payload, and nothing else; a call that returns an error has
\* left both keys as they were.
C8_AddAllOrNothing ==
    [][uuids' # uuids =>
         LET id == uuids'
         IN  IF lastAdd' = "nil"
             THEN /\ id \notin DOMAIN delayed
                  /\ id \notin DOMAIN tasks
                  /\ DOMAIN delayed' = DOMAIN delayed \cup {id}
                  /\ DOMAIN tasks' = DOMAIN tasks \cup {id}
                  /\ \A m \in DOMAIN delayed : delayed'[m] = delayed[m]
                  /\ \A f \in DOMAIN tasks : tasks'[f] = tasks[f]
                  /\ hist'[id].due >= clock
                  /\ delayed'[id] = Unix(hist'[id].due)
                  /\ tasks'[id] = Marshal(hist'[id].payload).data
             ELSE delayed' = delayed /\ tasks' = tasks]_vars

\* C8 witness: one Add has succeeded and a later one has failed in the store.
C8_Witness ==
    /\ lastAdd = "exec error"
    /\ \E i \in TaskIds : hist[i].added /\ i < uuids

\* C9: over all pollers and ticks the handler is called at most once for a
\* task id: an id that was claimed is not in the sorted set again and has at
\* most one handleTask goroutine.
C9_HandledAtMostOnce ==
    \A i \in TaskIds :
        /\ hist[i].calls <= 1
        /\ Claimed(i) => i \notin DOMAIN delayed
        /\ BagCardinality([e \in {x \in Running : x.id = i} |-> execs[e]]) <= 1

\* C9 witness: with two run goroutines polling, a handler was called, failed,
\* and its handleTask ended with no second call.
C9_Witness ==
    /\ \A p \in Pollers : Started(p)
    /\ \E i \in TaskIds :
          hist[i].calls = 1 /\ hist[i].exec = "handlerErr"
    /\ \E p \in Pollers : pc[p] = "fetch"

\* C10: with no handler timeout configured, the context handleTask makes for
\* the read of the payload and for the handler is not done when it is made,
\* and no read of a payload fails on a passed deadline.
C10_NoTimeoutMeansNoDeadline ==
    handlerTimeout = 0 =>
        /\ \A e \in Running :
              (e.pc = "start" /\ e.id \in DOMAIN tasks) =>
                  ~Expired(clock + handlerTimeout)
        /\ \A i \in TaskIds : hist[i].getErr # "context deadline exceeded"

\* C11: in the run of TestQueue (tasks added with one delay, NewQueue with
\* no WithHandlerTimeout, one Start, the store answering every call) every
\* task whose handleTask has ended had its handler called exactly once, and
\* no more than the configured concurrency of handlers are in flight.
C11_ScenarioAllHandledOnce ==
    (handlerTimeout = 0 /\ Cardinality({p \in Pollers : Started(p)}) <= 1) =>
        /\ \A i \in TaskIds :
              (ExecEnded(i) /\ hist[i].getErr # "io error") =>
                  hist[i].calls = 1
        /\ Cardinality(InHandler) <= Concurrency

\* C12: a fetchTask whose script runs while exactly one task is due for its
\* now returns that task and takes it out of the sorted set, the bytes HGet
\* gives for it unmarshal to the payload that Add was called with, and the
\* bytes a handler was called with do so as well.
C12_AddFetchRoundTrip ==
    [][\A p \in Pollers, i \in TaskIds :
          /\ ( /\ Fetch(p, TRUE)
               /\ hist[i].added
               /\ {m \in DOMAIN delayed : delayed[m] <= now[p]} = {i}
               /\ now[p] >= Unix(hist[i].due) )
             => /\ hist'[i].claims = <<[by |-> p, now |-> now[p]]>>
                /\ i \notin DOMAIN delayed'
                /\ HGetErr(tasks', i, FALSE, TRUE) = "nil"
                /\ Unmarshal(tasks'[i]) = [v |-> hist[i].payload, err |-> "nil"]
          /\ hist'[i].calls > hist[i].calls =>
                Unmarshal(hist'[i].data) = [v |-> hist[i].payload, err |-> "nil"]
      ]_vars

\* C12 witness: a task added at second 0 with delay 0 was returned by a
\* fetchTask and its handler was called with the stored bytes.
C12_Witness ==
    \E i \in TaskIds :
        /\ hist[i].due = 0
        /\ Claimed(i)
        /\ hist[i].calls = 1
        /\ hist[i].data = Marshal(hist[i].payload).data

\* C13: a fetchTask of processBatch whose script finds no due task frees the
\* slot of sem it took, starts no handleTask goroutine, and ends this
\* processBatch.
C13_EmptyFetchEndsTick ==
    [][\A p \in Pollers :
          (Fetch(p, TRUE) /\ ZRangeByScoreFirst(delayed, now[p]) = {}) =>
              /\ sem'[p] = sem[p] - 1
              /\ execs' = execs
              /\ pc'[p] = "select"
      ]_vars

\* C14: a run goroutine ends only with the context cancelled; no step of a
\* handleTask goroutine, whatever its error, moves a run goroutine; a
\* fetchTask that fails frees its slot of sem, starts no goroutine and puts
\* run back at its select, where the next tick starts a processBatch.
C14_OnlyCancelEndsRun ==
    [][\A p \in Pollers :
          /\ (pc[p] # "exited" /\ pc'[p] = "exited") => cancelled
          /\ ( \E e \in Running, b \in BOOLEAN :
                  \/ HandleTaskGet(e, b)
                  \/ HandlerReturn(e, b)
                  \/ HandleTaskDel(e, b) ) => pc' = pc
          /\ Fetch(p, FALSE) =>
                /\ sem'[p] = sem[p] - 1
                /\ execs' = execs
                /\ pc'[p] = "select"
                /\ delayed' = delayed
      ]_vars

\* C14 witness: after a handleTask that ended on an error, with its payload
\* still stored, the run goroutine that started it is in a processBatch with
\* a slot taken and a task due, the context not cancelled.
C14_Witness ==
    \E p \in Pollers, i \in TaskIds :
        /\ hist[i].exec \in {"getErr", "handlerErr", "delErr"}
        /\ hist[i].claims[1].by = p
        /\ pc[p] = "fetch"
        /\ ~cancelled
        /\ i \in DOMAIN tasks
        /\ \E j \in TaskIds : j \in DOMAIN delayed /\ delayed[j] <= now[p]

\* C15: the deadline of WithHandlerTimeout fails neither the HGet before the
\* handler nor the HDel after it: an HGet the store answers for a stored
\* payload leads to the call of the handler, and an HDel the store answers
\* removes the payload.
C15_TimeoutOnlyBoundsHandler ==
    [][\A e \in Running :
          /\ (HandleTaskGet(e, TRUE) /\ e.id \in DOMAIN tasks) =>
                hist'[e.id].calls = hist[e.id].calls + 1
          /\ HandleTaskDel(e, TRUE) => e.id \notin DOMAIN tasks'
      ]_vars

\* the slots of the sem of run goroutine p that are taken are those of its
\* handleTask goroutines and one more while it is between sem <- and go
SemAccounting(p) ==
    sem[p] = BagCardinality([e \in {x \in Running : x.owner = p} |-> execs[e]])
             + (IF pc[p] = "fetch" THEN 1 ELSE 0)

\* C16: every slot of sem is freed once: by processBatch itself when
\* fetchTask comes back empty or with an error, else by the handleTask
\* goroutine that was started; the slots taken are the goroutines in flight
\* plus one during a fetch, and none when nothing is in flight.
C16_SemReleasedOnce ==
    [][\A p \in Pollers :
          /\ SemAccounting(p)
          /\ ( \E b \in BOOLEAN : Fetch(p, b) ) =>
                IF ~(\E i \in TaskIds : hist'[i].claims # hist[i].claims)
                THEN sem'[p] = sem[p] - 1 /\ execs' = execs
                ELSE sem'[p] = sem[p] /\ BagCardinality(execs') = BagCardinality(execs) + 1
      ]_vars

\* C17: a run of the script with at least one member of score <= now gives
\* a member with the least score of the sorted set, removes that member
\* only and leaves the hash as it is; with no such member it gives the empty
\* id and changes neither key.
C17_ScriptTakesEarliestDue ==
    [][\A p \in Pollers :
          Fetch(p, TRUE) =>
              LET due == {m \in DOMAIN delayed : delayed[m] <= now[p]}
              IN  /\ tasks' = tasks
                  /\ IF due # {}
                     THEN \E m \in due :
                            /\ \A k \in DOMAIN delayed : delayed[m] <= delayed[k]
                            /\ DOMAIN delayed' = DOMAIN delayed \ {m}
                            /\ \A k \in DOMAIN delayed' : delayed'[k] = delayed[k]
                            /\ hist'[m].claims =
                                  Append(hist[m].claims, [by |-> p, now |-> now[p]])
                            /\ \A k \in TaskIds \ {m} : hist'[k] = hist[k]
                     ELSE /\ delayed' = delayed
                          /\ hist' = hist
      ]_vars

\* C17 witness: a task was returned by the script while another task with a
\* later score, due as well for that now, stayed in the sorted set.
C17_Witness ==
    \E i, j \in TaskIds :
        /\ Claimed(i)
        /\ j \in DOMAIN delayed
        /\ Unix(hist[i].due) < delayed[j]
        /\ delayed[j] <= hist[i].claims[1].now
        /\ i \in DOMAIN tasks

\* C18: every id in the sorted set has a field in the hash, and a task
\* whose field was deleted had been returned by the script before.
C18_IndexedHasPayload ==
    /\ DOMAIN delayed \subseteq DOMAIN tasks
    /\ \A i \in TaskIds :
          (hist[i].added /\ i \notin DOMAIN tasks) =>
              (Claimed(i) /\ i \notin DOMAIN delayed)

\* C18 witness: the field of one task was deleted while another task is
\* still in the sorted set.
C18_Witness ==
    \E i, j \in TaskIds :
        /\ hist[i].exec = "deleted"
        /\ i \notin DOMAIN tasks
        /\ j \in DOMAIN delayed

\* C19: Stop returns only with q.stopped closed by a run goroutine that has
\* ended; while no Start was called q.stopped is open and a Stop in progress
\* cannot return; after one Stop has returned q.stopped stays closed, so the
\* receive of a later Stop does not block.
C19_StopWaitsForRun ==
    /\ []( /\ (\A p \in Pollers : ~Started(p)) => (~stopped /\ ~stopReturned)
           /\ stopped => \E p \in Pollers : pc[p] = "exited"
           /\ stopReturned => stopped )
    /\ [][(stopPc = "waiting" /\ stopPc' = "idle") => (stopped /\ stopped')]_vars

\* C19 witness: one Stop has returned and a later Stop is in progress.
C19_Witness ==
    /\ stopReturned
    /\ stopPc = "waiting"
    /\ stopped

\* C20: q.stopped is closed at most once: no run goroutine reaches its
\* close(q.stopped) with the channel closed already.
C20_StoppedClosedOnce == ~panicked

====
